---- MODULE Spec2Model ----
(***************************************************************************)
(* A model of the Solar chatbot front-end: the conversation store kept in  *)
(* st.session_state (app.py), the per-turn handler of main(), the overflow *)
(* manager, the reset button, the history converter and the sentiment      *)
(* annotator with its display formatter (sentiment_analysis.py).           *)
(*                                                                         *)
(* Texts are opaque to the code (it never compares or inspects them), so a *)
(* text is a pair <<kind, n>>: the n-th text typed by the user is          *)
(* <<"input", n>>, the reply generated for it <<"response", n>>.           *)
(* An optional value (Python None or a dict) is <<>> or <<value>>.         *)
(* A score in [0,1] is an integer number of 1/10000ths.                    *)
(* The Korean string constants of the source are written in English:       *)
(*   긍정 positive, 중립 neutral, 부정 negative, 알 수 없음 unknown,        *)
(*   높음 high, 보통 medium, 낮음 low, 불확실 uncertain.                    *)
(***************************************************************************)
EXTENDS Naturals, Sequences, FiniteSets

VARIABLES
    messages,            \* st.session_state.messages
    conversation_count,  \* st.session_state.conversation_count
    sentiment_pipeline,  \* SentimentAnalysis.sentiment_pipeline: "None" or "loaded"
    pc,                  \* position of the running script
    user_input,          \* main: user_input (<<>> when no turn is running)
    chat_history,        \* generate_response: chat_history
    ai_response,         \* generate_response: ai_response
    result,              \* main: result (<<>> or <<dict>>)
    removed_count,       \* manage_conversation_overflow: what st.success reported
    trace,               \* the steps the running (or last) script run has taken
    inputs_seen,         \* number of texts typed in the session so far
    gen_failures,        \* generator calls that failed so far
    cls_failures,        \* classifier calls that raised so far
    sentiment_result,    \* get_sentiment_display: its argument
    converted,           \* get_sentiment_display: converted
    display              \* get_sentiment_display: the returned string

vars == <<messages, conversation_count, sentiment_pipeline, pc, user_input,
          chat_history, ai_response, result, removed_count, trace,
          inputs_seen, gen_failures, cls_failures,
          sentiment_result, converted, display>>

\* ------------------------------------------------------------------ bounds

\* Texts typed in one session.
MaxInputs == 14
\* Generator calls that fail in one session.
MaxGenFailures == 2
\* Classifier calls that raise in one session.
MaxClsFailures == 2
\* Longest store handed to the overflow manager on its own.
MaxStoreLen == 24

\* --------------------------------------------------------------- constants

\* app.py:13
MAX_CONVERSATION_TURNS == 10

\* Scores are counted in 1/ScoreUnit.
ScoreUnit == 100 * 100

\* get_sentiment_display's default arguments 0.7 and 0.55
strict_threshold == (7 * ScoreUnit) \div 10
neutral_threshold == (55 * ScoreUnit) \div 100

\* The 11 labels of the classifier, in the order of the source's lists:
\* 기쁨(행복한), 고마운, 설레는(기대하는), 사랑하는, 즐거운(신나는)
\* (variant: the last positive label left out)
positive_wrong == {"joy_happy", "thankful", "excited_anticipating", "loving"}
positive == {"joy_happy", "thankful", "excited_anticipating", "loving", "pleasant_fun"}
\* 일상적인, 생각이 많은
neutral == {"routine_everyday", "contemplative"}
\* 슬픔(우울한), 힘듦(지침), 짜증남, 걱정스러운(불안한)
negative == {"sad_depressed", "exhausted", "annoyed", "anxious_worried"}

\* ----------------------------------------------------------------- helpers

None == <<>>
Some(x) == <<x>>

\* Python's s[-k:]: the last k elements, and the whole list when k = 0 or
\* k >= len(s).
LastSlice(s, k) ==
    IF k = 0 \/ k >= Len(s) THEN s ELSE SubSeq(s, Len(s) - k + 1, Len(s))

\* Python's s[:-1].
AllButLast(s) ==
    IF Len(s) = 0 THEN s ELSE SubSeq(s, 1, Len(s) - 1)

UserMessage(content) == [role |-> "user", content |-> content]

HumanMessage(content) == [type |-> "human", content |-> content]

AIMessage(content) == [type |-> "ai", content |-> content]

\* f"--- 오류: {error}": the prefix followed by the error's text.
ErrorNotice(error) == <<"--- error: ", error[2]>>

\* ------------------------------------------------- overflow manager (app.py)

max_messages == MAX_CONVERSATION_TURNS * 2

\* int(max_messages * 0.7): the float product 20 * 0.7 is 14.0 exactly, so the
\* truncation is that of the exact product.
\* (variant: three quarters kept)
keep_count_odd == (max_messages * 3) \div 4
keep_count == (max_messages * 7) \div 10

\* len(st.session_state.messages) >= max_messages  (variant: >)
Overflows_strict(store) == Len(store) > max_messages
Overflows(store) == Len(store) >= max_messages

\* st.session_state.messages[-keep_count:]  (variant: [:keep_count])
Retained_oldest(store) ==
    IF keep_count >= Len(store) THEN store ELSE SubSeq(store, 1, keep_count)
Retained(store) == LastSlice(store, keep_count)

\* The store and the reported count after manage_conversation_overflow.
manage_conversation_overflow ==
    IF Overflows(messages)
    THEN /\ messages' = Retained(messages)
         /\ removed_count' = Some(Len(messages) - keep_count)
    ELSE /\ messages' = messages
         /\ removed_count' = None

\* setup_sidebar: turn_count
turn_count == Len(messages) \div 2

\* ------------------------------------------------ history converter (app.py)

\* conversation[:-1]  (variant: the whole conversation)
Prior_all(conversation) == conversation
Prior(conversation) == AllButLast(conversation)

convert_to_langchain_messages(conversation) ==
    LET kept == SelectSeq(Prior(conversation),
                          LAMBDA msg : msg.role \in {"user", "assistant"})
    IN  [i \in 1..Len(kept) |->
            IF kept[i].role = "user"
            THEN HumanMessage(kept[i].content)
            ELSE AIMessage(kept[i].content)]

\* --------------------------------- sentiment annotator (sentiment_analysis.py)

convert_to_simple_sentiment(sr) ==
    IF sr = None
    THEN None
    ELSE LET label == sr[1].label
             score == sr[1].score
             simple_label ==
                 IF label \in positive THEN "positive"
                 ELSE IF label \in neutral THEN "neutral"
                 ELSE IF label \in negative THEN "negative"
                 ELSE "unknown"
         IN  Some([original_label |-> label,
                   simple_label |-> simple_label,
                   score |-> score])

\* f"{score*100:.1f}": the percentage in tenths of a percent, rounded to the
\* nearest tenth.  A score exactly halfway between two tenths goes to either
\* side, as the binary value of the float decides (0.5495 prints 54.9, 0.6995
\* prints 70.0).
FormatPercent(score) ==
    IF score % 10 = 5
    THEN {score \div 10, score \div 10 + 1}
    ELSE {(score + 5) \div 10}

\* score >= strict_threshold  (variant: >)
IsHigh_strict(score) == score > strict_threshold
IsHigh(score) == score >= strict_threshold

IsMedium(score) == score >= neutral_threshold

\* The strings get_sentiment_display can return, as the fields of the f-string:
\* <<leading label, original label, confidence level, percentage>>; "" is <<>>.
get_sentiment_display(sr) ==
    LET conv == convert_to_simple_sentiment(sr)
    IN  IF conv = None
        THEN {<<>>}
        ELSE LET simple_label == conv[1].simple_label
                 score == conv[1].score
                 original_label == conv[1].original_label
             IN  IF IsHigh(score)
                 THEN {<<simple_label, original_label, "high", p>> :
                          p \in FormatPercent(score)}
                 ELSE IF IsMedium(score)
                 THEN {<<simple_label, original_label, "medium", p>> :
                          p \in FormatPercent(score)}
                 ELSE {<<"uncertain", original_label, "low", p>> :
                          p \in FormatPercent(score)}

\* What the classifier answers in a conversation.
ClassifierOutputs == {[label |-> "joy_happy", score |-> 8123]}

\* process_message_sentiment, given what analyze_sentiment returned.
process_message_sentiment(sr) ==
    IF sr # None
    THEN {[sentiment |-> sr, sentiment_display |-> Some(d), has_sentiment |-> TRUE] :
             d \in get_sentiment_display(sr)}
    ELSE {[sentiment |-> None, sentiment_display |-> None, has_sentiment |-> FALSE]}

\* ------------------------------------------------------------ the session

localVars == <<sentiment_result, converted, display>>
budgetVars == <<inputs_seen, gen_failures, cls_failures>>

\* initialize_session_state, and the Chatbot load_chatbot returns.
Init ==
    /\ messages = <<>>
    /\ conversation_count = 0
    /\ sentiment_pipeline \in {"None", "loaded"}
    /\ pc = "idle"
    /\ user_input = None
    /\ chat_history = <<>>
    /\ ai_response = None
    /\ result = None
    /\ removed_count = None
    /\ trace = <<>>
    /\ inputs_seen = 0
    /\ gen_failures = 0
    /\ cls_failures = 0
    /\ sentiment_result = None
    /\ converted = None
    /\ display = None

\* main, lines 211-213: a text arrives and the overflow manager runs.
ChatInput ==
    /\ pc = "idle"
    /\ inputs_seen < MaxInputs
    /\ inputs_seen' = inputs_seen + 1
    /\ user_input' = Some(<<"input", inputs_seen + 1>>)
    /\ manage_conversation_overflow
    /\ trace' = <<"manage_conversation_overflow">>
    /\ pc' = "append_user"
    /\ UNCHANGED <<conversation_count, sentiment_pipeline, chat_history,
                   ai_response, result, gen_failures, cls_failures, localVars>>

\* main, lines 216-219.
AppendUser ==
    /\ pc = "append_user"
    /\ messages' = Append(messages, UserMessage(user_input[1]))
    /\ trace' = Append(trace, "append_user")
    /\ pc' = "convert"
    /\ UNCHANGED <<conversation_count, sentiment_pipeline, user_input,
                   chat_history, ai_response, result, removed_count,
                   budgetVars, localVars>>

\* generate_response, line 76.
ConvertHistory ==
    /\ pc = "convert"
    /\ chat_history' = convert_to_langchain_messages(messages)
    /\ trace' = Append(trace, "convert_history")
    /\ pc' = "invoke"
    /\ UNCHANGED <<messages, conversation_count, sentiment_pipeline, user_input,
                   ai_response, result, removed_count, budgetVars, localVars>>

\* generate_response, lines 79-86: the generator answers.
InvokeOk ==
    /\ pc = "invoke"
    /\ ai_response' = Some(<<"response", user_input[1][2]>>)
    /\ trace' = Append(trace, "invoke")
    /\ pc' = "sentiment"
    /\ UNCHANGED <<messages, conversation_count, sentiment_pipeline, user_input,
                   chat_history, result, removed_count, budgetVars, localVars>>

\* generate_response, lines 79-86 and 97-103: the generator call raises.
InvokeFail ==
    /\ pc = "invoke"
    /\ gen_failures < MaxGenFailures
    /\ gen_failures' = gen_failures + 1
    /\ result' = Some([status |-> "error",
                       error |-> <<"exception", user_input[1][2]>>,
                       response |-> <<"generation error", 0>>,
                       sentiment_info |-> [has_sentiment |-> FALSE]])
    /\ trace' = Append(trace, "invoke")
    /\ pc' = "respond"
    /\ UNCHANGED <<messages, conversation_count, sentiment_pipeline, user_input,
                   chat_history, ai_response, removed_count, inputs_seen,
                   cls_failures, localVars>>

Success(info) ==
    Some([status |-> "success", response |-> ai_response[1], sentiment_info |-> info])

\* generate_response, lines 89-95, with analyze_sentiment returning a result.
SentimentOk ==
    /\ pc = "sentiment"
    /\ sentiment_pipeline # "None"
    /\ \E out \in ClassifierOutputs :
         \E info \in process_message_sentiment(Some(out)) :
            result' = Success(info)
    /\ trace' = Append(trace, "annotate")
    /\ pc' = "respond"
    /\ UNCHANGED <<messages, conversation_count, sentiment_pipeline, user_input,
                   chat_history, ai_response, removed_count, budgetVars, localVars>>

\* analyze_sentiment, lines 69-70: no pipeline was loaded.
SentimentNone ==
    /\ pc = "sentiment"
    /\ sentiment_pipeline = "None"
    /\ \E info \in process_message_sentiment(None) : result' = Success(info)
    /\ trace' = Append(trace, "annotate")
    /\ pc' = "respond"
    /\ UNCHANGED <<messages, conversation_count, sentiment_pipeline, user_input,
                   chat_history, ai_response, removed_count, budgetVars, localVars>>

\* analyze_sentiment, lines 77 and 82-84: the classifier call raises.
SentimentRaise ==
    /\ pc = "sentiment"
    /\ sentiment_pipeline # "None"
    /\ cls_failures < MaxClsFailures
    /\ cls_failures' = cls_failures + 1
    /\ \E info \in process_message_sentiment(None) : result' = Success(info)
    /\ trace' = Append(trace, "annotate")
    /\ pc' = "respond"
    /\ UNCHANGED <<messages, conversation_count, sentiment_pipeline, user_input,
                   chat_history, ai_response, removed_count, inputs_seen,
                   gen_failures, localVars>>

\* main, lines 234-244.
\* (variant: the sentiment fields set whatever has_sentiment says)
assistant_message_always_annotated(res) ==
    [role |-> "assistant",
     content |-> res.response,
     sentiment |-> res.sentiment_info.sentiment,
     sentiment_display |-> res.sentiment_info.sentiment_display]
assistant_message(res) ==
    IF res.sentiment_info.has_sentiment
    THEN [role |-> "assistant",
          content |-> res.response,
          sentiment |-> res.sentiment_info.sentiment,
          sentiment_display |-> res.sentiment_info.sentiment_display]
    ELSE [role |-> "assistant", content |-> res.response]

\* main, lines 251-254.
error_message(res) == [role |-> "assistant", content |-> ErrorNotice(res.error)]

\* The script run ends (st.rerun): its locals are gone.
Rerun ==
    /\ pc' = "idle"
    /\ user_input' = None
    /\ chat_history' = <<>>
    /\ ai_response' = None
    /\ result' = None
    /\ removed_count' = None

\* main, lines 228-247 and 257.
\* (variant: the overflow manager run after the reply is appended)
AppendAssistant_then_trim ==
    /\ pc = "respond"
    /\ result[1].status = "success"
    /\ messages' =
         LET appended == Append(messages, assistant_message(result[1]))
         IN  IF Overflows(appended) THEN Retained(appended) ELSE appended
    /\ conversation_count' = conversation_count + 1
    /\ trace' = trace \o <<"append_reply", "manage_conversation_overflow">>
    /\ Rerun
    /\ UNCHANGED <<sentiment_pipeline, budgetVars, localVars>>
AppendAssistant ==
    /\ pc = "respond"
    /\ result[1].status = "success"
    /\ messages' = Append(messages, assistant_message(result[1]))
    /\ conversation_count' = conversation_count + 1
    /\ trace' = Append(trace, "append_reply")
    /\ Rerun
    /\ UNCHANGED <<sentiment_pipeline, budgetVars, localVars>>

\* main, lines 249-257.
\* (variant: the error notice counted as a turn)
AppendError_counted ==
    /\ pc = "respond"
    /\ result[1].status # "success"
    /\ messages' = Append(messages, error_message(result[1]))
    /\ conversation_count' = conversation_count + 1
    /\ trace' = Append(trace, "append_error")
    /\ Rerun
    /\ UNCHANGED <<sentiment_pipeline, budgetVars, localVars>>
AppendError ==
    /\ pc = "respond"
    /\ result[1].status # "success"
    /\ messages' = Append(messages, error_message(result[1]))
    /\ trace' = Append(trace, "append_error")
    /\ Rerun
    /\ UNCHANGED <<conversation_count, sentiment_pipeline, budgetVars, localVars>>

\* setup_sidebar, lines 152-157, and reset_chat.
\* (variant: only the messages cleared)
reset_chat_keeps_count ==
    /\ pc = "idle"
    /\ messages # <<>>
    /\ messages' = <<>>
    /\ trace' = <<"reset_chat">>
    /\ UNCHANGED <<conversation_count, sentiment_pipeline, pc, user_input,
                   chat_history, ai_response, result, removed_count, budgetVars,
                   localVars>>
reset_chat ==
    /\ pc = "idle"
    /\ messages # <<>>
    /\ messages' = <<>>
    /\ conversation_count' = 0
    /\ trace' = <<"reset_chat">>
    /\ UNCHANGED <<sentiment_pipeline, pc, user_input, chat_history, ai_response,
                   result, removed_count, budgetVars, localVars>>

Next ==
    \/ ChatInput
    \/ AppendUser
    \/ ConvertHistory
    \/ InvokeOk
    \/ InvokeFail
    \/ SentimentOk
    \/ SentimentNone
    \/ SentimentRaise
    \/ AppendAssistant
    \/ AppendError
    \/ reset_chat

Spec == Init /\ [][Next]_vars

\* ------------------------------------------- the overflow manager on its own

\* A store of n messages, a user message first and the roles alternating, its
\* texts numbered from base + 1.
StoreOf(n, base) ==
    [i \in 1..n |->
        [role |-> IF i % 2 = 1 THEN "user" ELSE "assistant",
         content |-> <<IF i % 2 = 1 THEN "input" ELSE "response", base + i>>]]

TrimStores == {StoreOf(n, base) : n \in 0..MaxStoreLen, base \in {0, 100, 200}}

mainVars == <<conversation_count, sentiment_pipeline, user_input, chat_history,
              ai_response, result, budgetVars>>

InitTrim ==
    /\ messages \in TrimStores
    /\ conversation_count = 0
    /\ sentiment_pipeline = "loaded"
    /\ pc = "overflow"
    /\ user_input = None
    /\ chat_history = <<>>
    /\ ai_response = None
    /\ result = None
    /\ removed_count = None
    /\ trace = <<>>
    /\ inputs_seen = 0
    /\ gen_failures = 0
    /\ cls_failures = 0
    /\ sentiment_result = None
    /\ converted = None
    /\ display = None

\* One call of manage_conversation_overflow.
TrimStore ==
    /\ pc = "overflow"
    /\ manage_conversation_overflow
    /\ trace' = <<"manage_conversation_overflow">>
    /\ pc' = "overflow_done"
    /\ UNCHANGED <<mainVars, localVars>>

NextTrim == TrimStore

SpecTrim == InitTrim /\ [][NextTrim]_vars

\* ------------------------------------------ the display formatter on its own

\* The classifier's 11 labels, and two labels it does not have.
Labels ==
    {"joy_happy", "thankful", "excited_anticipating", "loving", "pleasant_fun",
     "routine_everyday", "contemplative",
     "sad_depressed", "exhausted", "annoyed", "anxious_worried",
     "angry", "LABEL_0"}

\* Scores around both thresholds, halfway cases of the rounding included.
Scores == {0, 4000, 5495, 5499, 5500, 6000, 6995, 6999, 7000, 8000, 9995, 10000}

ClassifierResults == {[label |-> l, score |-> sc] : l \in Labels, sc \in Scores}

InitDisplay ==
    /\ messages = <<>>
    /\ conversation_count = 0
    /\ sentiment_pipeline = "loaded"
    /\ pc = "display"
    /\ user_input = None
    /\ chat_history = <<>>
    /\ ai_response = None
    /\ result = None
    /\ removed_count = None
    /\ trace = <<>>
    /\ inputs_seen = 0
    /\ gen_failures = 0
    /\ cls_failures = 0
    /\ sentiment_result \in {None} \cup {Some(r) : r \in ClassifierResults}
    /\ converted = None
    /\ display = None

\* One call of get_sentiment_display (and of _convert_to_simple_sentiment in it).
DisplaySentiment ==
    /\ pc = "display"
    /\ converted' = convert_to_simple_sentiment(sentiment_result)
    /\ display' \in {Some(d) : d \in get_sentiment_display(sentiment_result)}
    /\ trace' = <<"get_sentiment_display">>
    /\ pc' = "display_done"
    /\ UNCHANGED <<messages, removed_count, mainVars, sentiment_result>>

NextDisplay == DisplaySentiment

SpecDisplay == InitDisplay /\ [][NextDisplay]_vars

\* =================================================================== claims

\* C1 (SpecTrim): one call of manage_conversation_overflow on a store of n
\* messages leaves, when n >= 20, exactly the last 14 messages in their order
\* and reports n - 14 removed; when n < 20 it leaves the store as it was and
\* reports nothing.
C1_OverflowTrim ==
    [][pc = "overflow" =>
        LET n == Len(messages)
        IN  IF n >= 20
            THEN /\ Len(messages') = 14
                 /\ \A i \in 1..14 : messages'[i] = messages[n - 14 + i]
                 /\ removed_count' = <<n - 14>>
            ELSE /\ messages' = messages
                 /\ removed_count' = <<>>]_vars

C1_Witness ==
    /\ pc = "overflow_done"
    /\ removed_count = <<6>>
    /\ Len(messages) = 14
    /\ messages[1].content[2] = 7

\* C2 (SpecDisplay): the display of a result with score s has tier high and
\* starts with the simplified label when s >= 0.70, has tier medium and starts
\* with the simplified label when 0.55 <= s < 0.70, has tier low and starts with
\* "uncertain" when s < 0.55; it always carries the original label and the score
\* as a percentage rounded to one decimal place.
C2_ConfidenceTiers ==
    (pc = "display_done" /\ sentiment_result # <<>>) =>
        LET label == sentiment_result[1].label
            score == sentiment_result[1].score
            simple == converted[1].simple_label
            d == display[1]
        IN  /\ Len(d) = 4
            /\ score >= 7000 => (d[3] = "high" /\ d[1] = simple)
            /\ (5500 <= score /\ score < 7000) => (d[3] = "medium" /\ d[1] = simple)
            /\ score < 5500 => (d[3] = "low" /\ d[1] = "uncertain" /\ d[1] # simple)
            /\ d[2] = label
            /\ 10 * d[4] <= score + 5
            /\ score <= 10 * d[4] + 5
            /\ score = 4000 => d[4] = 400

C2_Witness ==
    /\ pc = "display_done"
    /\ sentiment_result # <<>>
    /\ sentiment_result[1].score = 4000
    /\ sentiment_result[1].label = "joy_happy"
    /\ display = << <<"uncertain", "joy_happy", "low", 400>> >>

\* C7 (SpecDisplay): _convert_to_simple_sentiment maps the 5 positive labels to
\* positive, the 2 neutral labels to neutral, the 4 negative labels to negative
\* and every other label to unknown, and passes the label and the score through.
C7_SimpleLabelTable ==
    (pc = "display_done" /\ sentiment_result # <<>>) =>
        LET label == sentiment_result[1].label
            expected ==
                CASE label \in {"joy_happy", "thankful", "excited_anticipating",
                                "loving", "pleasant_fun"} -> "positive"
                  [] label \in {"routine_everyday", "contemplative"} -> "neutral"
                  [] label \in {"sad_depressed", "exhausted", "annoyed",
                                "anxious_worried"} -> "negative"
                  [] OTHER -> "unknown"
        IN  /\ Len(converted) = 1
            /\ converted[1].simple_label = expected
            /\ converted[1].simple_label \in {"positive", "neutral", "negative", "unknown"}
            /\ converted[1].original_label = label
            /\ converted[1].score = sentiment_result[1].score

C7_Witness ==
    /\ pc = "display_done"
    /\ sentiment_result # <<>>
    /\ sentiment_result[1].label = "pleasant_fun"
    /\ converted # <<>>
    /\ converted[1].simple_label = "positive"

\* C3 (Spec): while the generator works on a turn, the history built for it
\* holds one message per message of the store except the last, in the same
\* order, with the same role and content; the last message of the store is the
\* in-flight user message; and building the history leaves the store as it was.
C3_HistoryExcludesNewest ==
    /\ [](pc \in {"invoke", "sentiment", "respond"} =>
            /\ Len(messages) >= 1
            /\ messages[Len(messages)] = [role |-> "user", content |-> user_input[1]]
            /\ Len(chat_history) = Len(messages) - 1
            /\ \A i \in 1..Len(chat_history) :
                  /\ chat_history[i].content = messages[i].content
                  /\ chat_history[i].type =
                        (IF messages[i].role = "user" THEN "human" ELSE "ai")
                  /\ messages[i].role \in {"user", "assistant"})
    /\ [][pc = "convert" => messages' = messages]_vars

C3_Witness ==
    /\ pc = "invoke"
    /\ Len(messages) = 3
    /\ chat_history = << [type |-> "human", content |-> <<"input", 1>>],
                         [type |-> "ai", content |-> <<"response", 1>>] >>

\* C4 (Spec): a failing generator call skips the annotator; the turn then ends
\* with exactly one assistant message appended after the user's message, its
\* content the error notice and no sentiment field on it, the counter of
\* successful turns unchanged, and the script back at rest.
C4_GenerationFailureRecovered ==
    /\ [][(pc = "invoke" /\ pc' # "sentiment") =>
            /\ pc' = "respond"
            /\ result' # <<>>
            /\ result'[1].status = "error"
            /\ messages' = messages
            /\ conversation_count' = conversation_count]_vars
    /\ [][(pc = "respond" /\ result[1].status = "error") =>
            /\ messages[Len(messages)] = [role |-> "user", content |-> user_input[1]]
            /\ messages' = Append(messages,
                  [role |-> "assistant",
                   content |-> <<"--- error: ", result[1].error[2]>>])
            /\ conversation_count' = conversation_count
            /\ \A i \in 1..Len(trace') : trace'[i] # "annotate"
            /\ pc' = "idle"]_vars

C4_Witness ==
    /\ pc = "idle"
    /\ trace # <<>>
    /\ trace[Len(trace)] = "append_error"
    /\ Len(messages) = 4
    /\ conversation_count = 1
    /\ DOMAIN messages[4] = {"role", "content"}
    /\ messages[4].content[1] = "--- error: "

\* C5 (Spec): after reset_chat the store is empty and the turn counter is zero,
\* both together, and the sidebar's turn count is zero.
C5_ResetClearsBoth ==
    (trace = <<"reset_chat">>) =>
        /\ messages = <<>>
        /\ conversation_count = 0
        /\ Len(messages) \div 2 = 0

\* A reset after a trim, a failed turn and successful turns.
C5_Witness ==
    /\ trace = <<"reset_chat">>
    /\ inputs_seen >= 11
    /\ gen_failures >= 1
    /\ messages = <<>>

\* C6 (Spec): when no classifier is loaded or the classifier call raises, the
\* generator's result is a success without sentiment, and the turn ends with the
\* assistant message of the generated text appended without sentiment fields
\* and the counter of successful turns incremented.
C6_ClassificationFailureRecovered ==
    /\ [][(pc = "sentiment" /\
             (sentiment_pipeline = "None" \/ cls_failures' # cls_failures)) =>
            /\ pc' = "respond"
            /\ result' # <<>>
            /\ result'[1].status = "success"
            /\ result'[1].response = ai_response[1]
            /\ ~result'[1].sentiment_info.has_sentiment]_vars
    /\ [][(pc = "respond" /\ result[1].status = "success"
             /\ ~result[1].sentiment_info.has_sentiment) =>
            /\ messages' = Append(messages,
                  [role |-> "assistant", content |-> ai_response[1]])
            /\ conversation_count' = conversation_count + 1
            /\ pc' = "idle"]_vars

C6_Witness ==
    /\ pc = "idle"
    /\ cls_failures = 1
    /\ Len(messages) = 2
    /\ messages[2] = [role |-> "assistant", content |-> <<"response", 1>>]
    /\ conversation_count = 1

\* C8 as the spec states it (Spec): the steps of a turn that trims the store
\* run in the order append user message, build history, call generator, call
\* annotator, append reply, trim (the error notice is appended where the reply
\* would be).
C8_TrimLast ==
    LET order == <<"append_user", "convert_history", "invoke", "annotate",
                   "append_reply", "manage_conversation_overflow">>
        rank(step) ==
            CHOOSE k \in 1..Len(order) :
                order[k] = (IF step = "append_error" THEN "append_reply" ELSE step)
    IN  (trace # <<>> /\ trace[1] # "reset_chat" /\ removed_count # <<>>) =>
            \A i \in 1..Len(trace) : \A j \in 1..Len(trace) :
                i < j => rank(trace[i]) < rank(trace[j])

\* C8 amended (Spec): the steps of a turn run in the order trim, append user
\* message, build history, call generator, call annotator, append reply; a turn
\* that is over has run them all, the annotator only when the generator answered.
C8_TrimFirst ==
    LET order == <<"manage_conversation_overflow", "append_user",
                   "convert_history", "invoke", "annotate", "append_reply">>
        rank(step) ==
            CHOOSE k \in 1..Len(order) :
                order[k] = (IF step = "append_error" THEN "append_reply" ELSE step)
    IN  (trace # <<>> /\ trace[1] # "reset_chat") =>
            /\ \A i \in 1..Len(trace) : \A j \in 1..Len(trace) :
                  i < j => rank(trace[i]) < rank(trace[j])
            /\ pc = "idle" =>
                  \/ trace = order
                  \/ trace = <<"manage_conversation_overflow", "append_user",
                               "convert_history", "invoke", "append_error">>

\* The turn that trimmed the store, over.
C8_Witness ==
    /\ pc = "idle"
    /\ trace = <<"manage_conversation_overflow", "append_user",
                 "convert_history", "invoke", "annotate", "append_reply">>
    /\ inputs_seen = 11
    /\ Len(messages) = 16

\* C9 (Spec): between turns the store is empty or starts with a user message,
\* its roles alternate user, assistant, and its length is even.
C9_RolesAlternate ==
    pc = "idle" =>
        /\ Len(messages) % 2 = 0
        /\ \A i \in 1..Len(messages) :
              messages[i].role = (IF i % 2 = 1 THEN "user" ELSE "assistant")

\* A store that was trimmed: its first message is the 4th text typed.
C9_Witness ==
    /\ pc = "idle"
    /\ Len(messages) = 16
    /\ messages[1] = [role |-> "user", content |-> <<"input", 4>>]

\* C10 (Spec): the store never holds more than 20 messages, the sidebar's turn
\* count never exceeds 10 and the generator never gets more than 18 prior
\* messages.
C10_StoreBounded ==
    /\ Len(messages) <= 20
    /\ Len(messages) \div 2 <= 10
    /\ Len(chat_history) <= 18

\* Mid-turn after a trim: the store one short of full, its 18 prior messages
\* handed to the generator.
C10_Witness ==
    /\ pc = "respond"
    /\ Len(messages) = 19
    /\ Len(chat_history) = 18
    /\ inputs_seen = 13

====
